---- MODULE Spec2Model ----
(***************************************************************************)
(* Emotion-based music recommendation: the label normaliser, the label     *)
(* smoother, the emotion detector (calibration matcher + classifier        *)
(* adapter) and the snapshot main loop, as state machines.                 *)
(*                                                                         *)
(* Python strings are sequences of one-character strings, so that strip()  *)
(* and lower() are computed and not assumed.  None is a one-element        *)
(* sequence whose element is no character, hence different from every      *)
(* string.  Floats that the code obtains by one division of small integers *)
(* are kept as reduced fractions [num, den]: two such floats are equal     *)
(* exactly when the fractions are.                                         *)
(***************************************************************************)
EXTENDS Integers, Sequences, FiniteSets, TLC

VARIABLES
    window,             \* LabelSmoother.window
    buf,                \* LabelSmoother.buf (deque, oldest first)
    ret,                \* value returned by the last LabelSmoother.update
    arg,                \* argument of the last LabelSmoother.update
    fed,                \* history: every truthy label passed to update, in order
    use_calibration,    \* EmotionDetector.use_calibration
    calibration_data,   \* EmotionDetector.calibration_data
    counter,            \* EmotionDetector._calibration_counter
    calls,              \* history: number of analyze calls made
    last,               \* history: what the last analyze call did and returned
    args,               \* parse_args() result used by main
    pc,                 \* position of main: "loop", "done", "crashed"
    frame_idx,          \* main's frame_idx
    now,                \* the clock read by time.time()
    last_played_label,  \* main's last_played_label
    last_play_time,     \* main's last_play_time
    opened,             \* the target of the last browser open
    n_opened,           \* history: number of browser opens
    label_raw,          \* the string first passed to normalize_emotion_label
    label_prev,         \* what the call before the last returned
    label_out,          \* what the last call of normalize_emotion_label returned
    applications        \* history: successive applications made on label_raw

smootherVars == <<window, buf, ret, arg, fed>>
detectorVars == <<use_calibration, calibration_data, counter, calls, last>>
mainVars == <<args, pc, frame_idx, now, last_played_label, last_play_time, opened, n_opened>>
normVars == <<label_raw, label_prev, label_out, applications>>
vars == <<smootherVars, detectorVars, mainVars, normVars>>

(***************************************************************************)
(* Bounds of the model.                                                    *)
(***************************************************************************)
MaxWindow == 5      \* --window values tried are 0..MaxWindow
MaxFeeds == 5       \* truthy labels fed to one smoother
MaxCalls == 11      \* analyze calls made on one detector
MaxFrames == 4      \* iterations of main's loop
MaxTime == 47       \* last clock value, in seconds
MaxApplications == 2 \* successive applications of normalize_emotion_label

(***************************************************************************)
(* Strings.                                                                *)
(***************************************************************************)
None == <<"<None>">>
EmptyStr == <<>>

Truthy(x) == x # None /\ x # EmptyStr

UpperAlpha == <<"A","B","C","D","E","F","G","H","I","J","K","L","M",
                "N","O","P","Q","R","S","T","U","V","W","X","Y","Z">>
LowerAlpha == <<"a","b","c","d","e","f","g","h","i","j","k","l","m",
                "n","o","p","q","r","s","t","u","v","w","x","y","z">>
Whitespace == {" ", "\t", "\n"}

LowerChar(c) ==
    IF \E i \in 1..Len(UpperAlpha) : UpperAlpha[i] = c
    THEN LowerAlpha[CHOOSE i \in 1..Len(UpperAlpha) : UpperAlpha[i] = c]
    ELSE c

\* str.lower()
Lower(s) == [i \in 1..Len(s) |-> LowerChar(s[i])]

RECURSIVE LStrip(_)
LStrip(s) == IF s # <<>> /\ s[1] \in Whitespace THEN LStrip(Tail(s)) ELSE s

RECURSIVE RStrip(_)
RStrip(s) ==
    IF s # <<>> /\ s[Len(s)] \in Whitespace
    THEN RStrip(SubSeq(s, 1, Len(s) - 1))
    ELSE s

\* str.strip()
Strip(s) == RStrip(LStrip(s))

S_happy == <<"h","a","p","p","y">>
S_sad == <<"s","a","d">>
S_angry == <<"a","n","g","r","y">>
S_neutral == <<"n","e","u","t","r","a","l">>
S_surprise == <<"s","u","r","p","r","i","s","e">>
S_fear == <<"f","e","a","r">>
S_disgust == <<"d","i","s","g","u","s","t">>
S_anger == <<"a","n","g","e","r">>
S_happiness == <<"h","a","p","p","i","n","e","s","s">>
S_sadness == <<"s","a","d","n","e","s","s">>
S_surprised == <<"s","u","r","p","r","i","s","e","d">>
\* raw spellings a classifier or a caller may produce
S_Happy == <<"H","a","p","p","y">>
S_SAD_sp == <<" ","S","A","D","\n">>
S_Anger == <<"A","n","g","e","r">>
S_calm == <<"c","a","l","m">>

\* playlist._SYNONYMS, in insertion order
SYNONYMS == <<
    <<S_anger, S_angry>>,
    <<S_happiness, S_happy>>,
    <<S_sadness, S_sad>>,
    <<S_surprised, S_surprise>> >>

\* dict.get(key, default) on a dict kept as a sequence of <<key, value>>
DictHas(d, k) == \E i \in 1..Len(d) : d[i][1] = k
DictGet(d, k, default) ==
    IF DictHas(d, k)
    THEN d[CHOOSE i \in 1..Len(d) : d[i][1] = k][2]
    ELSE default

\* a plausible slip: strip() is applied to what the table lookup returns
NormalizeStripLast(label) ==
    LET lbl == Lower(IF label = None THEN EmptyStr ELSE label)
    IN  Strip(DictGet(SYNONYMS, lbl, lbl))

normalize_emotion_label(label) ==
    LET lbl == Lower(Strip(IF label = None THEN EmptyStr ELSE label))
    IN  DictGet(SYNONYMS, lbl, lbl)

(***************************************************************************)
(* Fractions.                                                              *)
(***************************************************************************)
RECURSIVE Gcd(_, _)
Gcd(a, b) == IF b = 0 THEN a ELSE Gcd(b, a % b)

\* the float n / d, d > 0, n >= 0
Frac(n, d) == [num |-> n \div Gcd(n, d), den |-> d \div Gcd(n, d)]
Zero == Frac(0, 1)
One == Frac(1, 1)

(***************************************************************************)
(* LabelSmoother (src/app.py).                                             *)
(***************************************************************************)
Max2(a, b) == IF a >= b THEN a ELSE b

\* LabelSmoother.__init__: self.window = max(1, int(window))
SmootherWindow(w) == Max2(1, w)

\* a plausible slip: at capacity the newest entry is dropped, not the oldest
DequeAppendDropNewest(b, x, maxlen) ==
    IF Len(b) >= maxlen THEN b ELSE Append(b, x)

\* deque(maxlen=...).append
DequeAppend(b, x, maxlen) ==
    IF maxlen = 0 THEN b
    ELSE IF Len(b) = maxlen THEN Append(Tail(b), x)
    ELSE Append(b, x)

Count(s, x) == Cardinality({i \in 1..Len(s) : s[i] = x})

\* Counter(buf): the distinct elements, in order of first occurrence
RECURSIVE CounterKeys(_)
CounterKeys(s) ==
    IF s = <<>> THEN <<>>
    ELSE LET r == CounterKeys(SubSeq(s, 1, Len(s) - 1))
             x == s[Len(s)]
         IN  IF \E i \in 1..Len(r) : r[i] = x THEN r ELSE Append(r, x)

\* a plausible slip: >= lets the last item of the largest count win
RECURSIVE MaxByCountLast(_, _, _, _)
MaxByCountLast(keys, s, i, best) ==
    IF i > Len(keys) THEN best
    ELSE IF best = 0 \/ Count(s, keys[i]) >= Count(s, keys[best])
         THEN MaxByCountLast(keys, s, i + 1, i)
         ELSE MaxByCountLast(keys, s, i + 1, best)

\* max(items, key=count): the first item of the largest count
RECURSIVE MaxByCount(_, _, _, _)
MaxByCount(keys, s, i, best) ==
    IF i > Len(keys) THEN best
    ELSE IF best = 0 \/ Count(s, keys[i]) > Count(s, keys[best])
         THEN MaxByCount(keys, s, i + 1, i)
         ELSE MaxByCount(keys, s, i + 1, best)

\* Counter(buf).most_common(1)[0], for a non-empty buf
MostCommon1(s) ==
    LET keys == CounterKeys(s)
        k == keys[MaxByCount(keys, s, 1, 0)]
    IN  <<k, Count(s, k)>>

\* a plausible slip: the count is divided by the window, not by len(buf)
SmootherResultOverWindow(b, w) ==
    IF b = <<>> THEN [label |-> None, conf |-> Zero]
    ELSE LET top == MostCommon1(b)
         IN  [label |-> top[1], conf |-> Frac(top[2], w)]

\* LabelSmoother.update, after the append: the returned pair
SmootherResult(b, w) ==
    IF b = <<>> THEN [label |-> None, conf |-> Zero]
    ELSE LET top == MostCommon1(b)
         IN  [label |-> top[1], conf |-> Frac(top[2], Len(b))]

\* a plausible slip: a falsy label clears the history
SmootherBufClearOnEmpty(b, label, w) ==
    IF Truthy(label) THEN DequeAppend(b, label, w) ELSE <<>>

\* a plausible slip: update normalises the label it appends
SmootherBufNormalizing(b, label, w) ==
    IF Truthy(label) THEN DequeAppend(b, normalize_emotion_label(label), w) ELSE b

\* LabelSmoother.update: the deque after `if label: self.buf.append(label)`
SmootherBuf(b, label, w) ==
    IF Truthy(label) THEN DequeAppend(b, label, w) ELSE b

(***************************************************************************)
(* EmotionDetector (src/emotion_player/detector.py).                       *)
(*                                                                         *)
(* An embedding is a tuple of integers.  The cosine similarity             *)
(* dot(a, b) / (norm(a) * norm(b)) is kept exactly, as [d, q] standing for *)
(* d / sqrt(q); q = 0 is the nan that numpy gives for 0 / 0.               *)
(***************************************************************************)
CheckInterval == 5      \* self._calibration_check_interval

RECURSIVE Dot(_, _)
Dot(a, b) == IF a = <<>> THEN 0 ELSE a[1] * b[1] + Dot(Tail(a), Tail(b))

NormSq(a) == Dot(a, a)

Similarity(a, b) == [d |-> Dot(a, b), q |-> NormSq(a) * NormSq(b)]

IsNan(s) == s.q = 0

\* s > t on floats: FALSE when either side is nan
SimGt(s, t) ==
    /\ ~IsNan(s)
    /\ ~IsNan(t)
    /\ IF s.d > 0
       THEN t.d <= 0 \/ s.d * s.d * t.q > t.d * t.d * s.q
       ELSE IF s.d = 0
            THEN t.d < 0
            ELSE t.d < 0 /\ s.d * s.d * t.q < t.d * t.d * s.q

SimMinusOne == [d |-> -1, q |-> 1]      \* best_similarity = -1
SimAccept == [d |-> 3, q |-> 16]        \* 0.75

\* `if similarity > best_similarity`
SimBetter(s, best) == SimGt(s, best)

\* a plausible slip: the acceptance test is >= 0.75
SimAcceptedOrEqual(s) == SimGt(s, SimAccept) \/ (~IsNan(s) /\ ~SimGt(SimAccept, s))

\* `if best_similarity > 0.75`
SimAccepted(s) == SimGt(s, SimAccept)

\* the body of the for loop raises: no 'mean_embedding' key (KeyError), or
\* np.dot on vectors of different lengths (ValueError)
EntryRaises(e, emb) == ~e.has_mean \/ Len(e.vec) # Len(emb)

\* the for loop of _match_with_calibration from entry i on;
\* best is [emotion, sim], the result is [raised, emotion, sim]
RECURSIVE MatchLoop(_, _, _, _)
MatchLoop(items, emb, i, best) ==
    IF i > Len(items) THEN [raised |-> FALSE, emotion |-> best.emotion, sim |-> best.sim]
    ELSE IF EntryRaises(items[i], emb)
         THEN [raised |-> TRUE, emotion |-> best.emotion, sim |-> best.sim]
         ELSE LET s == Similarity(emb, items[i].vec)
              IN  IF SimBetter(s, best.sim)
                  THEN MatchLoop(items, emb, i + 1, [emotion |-> items[i].label, sim |-> s])
                  ELSE MatchLoop(items, emb, i + 1, best)

\* EmotionDetector._match_with_calibration; rep is what DeepFace.represent did
match_with_calibration(data, rep) ==
    IF ~data.present \/ data.items = <<>> THEN None
    ELSE IF rep.kind # "embedding" THEN None        \* raised, [] or no 'embedding'
    ELSE LET r == MatchLoop(data.items, rep.vec, 1,
                            [emotion |-> None, sim |-> SimMinusOne])
         IN  IF ~r.raised /\ SimAccepted(r.sim) THEN r.emotion ELSE None

\* EmotionDetector._load_calibration; file is what the file system holds
load_calibration(file) ==
    IF file.kind = "profile"
    THEN [present |-> TRUE, items |-> file.items]
    ELSE [present |-> FALSE, items |-> <<>>]        \* missing, or json.load raised

NoScores == [kind |-> "dict", items |-> <<>>]
NoResult == [kind |-> "none", dominant_emotion |-> None, emotions |-> NoScores, score |-> Zero]
Raised == [kind |-> "raise", dominant_emotion |-> None, emotions |-> NoScores, score |-> Zero]
EmotionResult(dom, emotions, score) ==
    [kind |-> "result", dominant_emotion |-> dom, emotions |-> emotions, score |-> score]

RECURSIVE SumValues(_)
SumValues(items) == IF items = <<>> THEN 0 ELSE items[1][2] + SumValues(Tail(items))

\* EmotionDetector.analyze from "Fall back to standard DeepFace detection" on;
\* cls is what DeepFace.analyze did (a list is taken by its first element)
Classify(cls) ==
    IF cls.kind = "raise" THEN NoResult                       \* except Exception
    ELSE IF cls.kind \in {"none", "empty"} THEN NoResult      \* not result
    ELSE IF cls.kind = "int" THEN Raised                      \* 'dominant_emotion' in 5
    ELSE IF cls.kind = "str" THEN NoResult                    \* substring test is False
    ELSE IF ~cls.has_dom THEN NoResult
    ELSE LET dom == Lower(cls.dom)
         IN  IF cls.emotions.kind = "nonnumeric" THEN Raised  \* sum() of strings
             ELSE IF cls.emotions.kind = "list"
                  THEN EmotionResult(dom, cls.emotions, Zero)
             ELSE LET total == SumValues(cls.emotions.items)
                  IN  EmotionResult(dom, cls.emotions,
                          IF cls.emotions.items # <<>> /\ total > 0
                          THEN Frac(DictGet(cls.emotions.items, dom, 0), total)
                          ELSE Zero)

\* DeepFace.represent / DeepFace.analyze were not called
RepNotCalled == [kind |-> "not_called", vec |-> <<>>]
ClsNotCalled == [kind |-> "not_called", has_dom |-> FALSE, dom |-> EmptyStr, emotions |-> NoScores]

\* `if self.use_calibration and self.calibration_data`
CalibrationOn(use, data) == use /\ data.present /\ data.items # <<>>

\* a plausible slip: the sampled calls are those with counter % K = 1
SampledOffByOne(c) == c % CheckInterval = 1

\* `if self._calibration_counter % self._calibration_check_interval == 0`
Sampled(c) == c % CheckInterval = 0

\* a plausible slip: the other scores are kept beside the matched label
OverrideResultKeepScores(emotion) ==
    EmotionResult(emotion,
        [kind |-> "dict", items |-> <<<<emotion, 100>>, <<S_neutral, 0>>>>], One)

\* EmotionResult(dominant_emotion=e, emotions={e: 100.0}, score=1.0)
OverrideResult(emotion) ==
    EmotionResult(emotion, [kind |-> "dict", items |-> <<<<emotion, 100>>>>], One)

\* EmotionDetector.analyze: the counter after the call, what was called, the outcome
analyze(use, data, c, rep, cls) ==
    LET on == CalibrationOn(use, data)
        c1 == IF on THEN c + 1 ELSE c
        attempted == on /\ Sampled(c1)
        matched == IF attempted THEN match_with_calibration(data, rep) ELSE None
    IN  IF Truthy(matched)
        THEN [counter |-> c1, attempted |-> attempted, matched |-> matched,
              classified |-> FALSE,
              rep |-> rep, cls |-> ClsNotCalled,
              out |-> OverrideResult(matched)]
        ELSE [counter |-> c1, attempted |-> attempted, matched |-> matched,
              classified |-> TRUE,
              rep |-> IF attempted THEN rep ELSE RepNotCalled, cls |-> cls,
              out |-> Classify(cls)]

(***************************************************************************)
(* Inputs: what the file system, DeepFace.represent and DeepFace.analyze   *)
(* may hand to the detector.                                               *)
(***************************************************************************)
V_e == <<1, 0, 0, 0, 0>>
V_2e == <<2, 0, 0, 0, 0>>           \* parallel to V_e: similarity 1
V_75 == <<3, 2, 1, 1, 1>>           \* similarity with V_e is 3/4 exactly
V_hi == <<4, 2, 1, 1, 1>>           \* similarity with V_e is 4/sqrt(23) > 3/4
V_orth == <<0, 1, 0, 0, 0>>
V_neg == <<-1, 0, 0, 0, 0>>
V_zero == <<0, 0, 0, 0, 0>>
V_short == <<1, 0>>                 \* of another model: a different length

Entry(l, v) == [label |-> l, has_mean |-> TRUE, vec |-> v]
EntryNoMean(l) == [label |-> l, has_mean |-> FALSE, vec |-> <<>>]

PairVecs == {V_e, V_2e, V_75, V_hi, V_zero}
Entries(l, vs) == {Entry(l, v) : v \in vs} \cup {EntryNoMean(l)}

Profiles ==
    {<<>>}
    \cup {<<e>> : e \in Entries(S_happy, PairVecs \cup {V_orth, V_neg, V_short})}
    \cup {<<a, b>> : a \in Entries(S_sad, PairVecs), b \in Entries(S_happy, PairVecs)}
    \cup {<<Entry(S_happy, V_orth), Entry(S_sad, V_hi), Entry(S_angry, V_2e)>>,
          <<Entry(S_happy, V_hi), Entry(S_sad, V_hi), Entry(S_angry, V_75)>>}

Files ==
    {[kind |-> "missing", items |-> <<>>], [kind |-> "corrupt", items |-> <<>>]}
    \cup {[kind |-> "profile", items |-> p] : p \in Profiles}

RepOutcomes ==
    {[kind |-> "raise", vec |-> <<>>],
     [kind |-> "empty_list", vec |-> <<>>],
     [kind |-> "no_embedding", vec |-> <<>>],
     [kind |-> "embedding", vec |-> V_e],
     [kind |-> "embedding", vec |-> V_zero]}

Scores(items) == [kind |-> "dict", items |-> items]
Record(dom, emotions) == [kind |-> "record", has_dom |-> TRUE, dom |-> dom, emotions |-> emotions]
Other(kind) == [kind |-> kind, has_dom |-> FALSE, dom |-> EmptyStr, emotions |-> NoScores]

\* DeepFace.analyze: raises; returns None, [] or {}; returns a number or a
\* string; returns a record (alone or first of a list)
ClsMalformed ==
    {Other("int"), Other("str"),
     Record(S_happy, [kind |-> "nonnumeric", items |-> <<>>]),
     Record(S_happy, [kind |-> "list", items |-> <<>>])}
ClsAbsent == {Other("raise"), Other("none"), Other("empty"), Other("record")}
ClsRecords ==
    {Record(S_happy, Scores(<<<<S_happy, 60>>, <<S_sad, 40>>>>)),
     Record(S_happy, Scores(<<<<S_happy, 100>>>>)),
     Record(S_SAD_sp, Scores(<<<<S_sad, 80>>, <<S_happy, 20>>>>)),
     Record(S_Anger, Scores(<<<<S_anger, 70>>, <<S_neutral, 30>>>>)),
     Record(S_fear, Scores(<<<<S_fear, 90>>, <<S_neutral, 10>>>>)),
     Record(S_neutral, Scores(<<<<S_neutral, 0>>, <<S_happy, 0>>>>)),
     Record(S_calm, NoScores)}
ClsOutcomes == ClsAbsent \cup ClsMalformed \cup ClsRecords

NoCall == <<"<no call>">>
NoAnalyze ==
    [call |-> "none", attempted |-> FALSE, matched |-> None, classified |-> FALSE,
     rep |-> RepNotCalled, cls |-> ClsNotCalled, out |-> NoResult]
NoOpen == [by |-> "none", platform |-> "none", label |-> None, target |-> "none"]

\* normalize_emotion_label has not been called
NormInit ==
    /\ label_raw = NoCall
    /\ label_prev = NoCall
    /\ label_out = NoCall
    /\ applications = 0

DefaultWindow == 10
DefaultArgs == [window |-> DefaultWindow, show |-> TRUE, ignore_fear |-> FALSE, platform |-> "spotify"]

\* LabelSmoother(window=w)
SmootherInit(w) ==
    /\ window = SmootherWindow(w)
    /\ buf = <<>>
    /\ ret = [label |-> NoCall, conf |-> Zero]
    /\ arg = NoCall
    /\ fed = <<>>

\* EmotionDetector(use_calibration=use), with `file` at calibration_data/embeddings.json
DetectorInit(use, file) ==
    /\ use_calibration = use
    /\ calibration_data = IF use THEN load_calibration(file) ELSE load_calibration([kind |-> "missing", items |-> <<>>])
    /\ counter = 0
    /\ calls = 0
    /\ last = NoAnalyze

MainIdle ==
    /\ pc = "off"
    /\ frame_idx = 0
    /\ now = 0
    /\ last_played_label = None
    /\ last_play_time = 0
    /\ opened = NoOpen
    /\ n_opened = 0
    /\ NormInit

(***************************************************************************)
(* A smoother on its own: update is called with any label.                 *)
(***************************************************************************)
FeedLabels == {S_happy, S_Happy, S_sad, S_anger, S_angry}
FalsyLabels == {None, EmptyStr}

Update(label) ==
    /\ Truthy(label) => Len(fed) < MaxFeeds
    /\ buf' = SmootherBuf(buf, label, window)
    /\ ret' = SmootherResult(buf', window)
    /\ arg' = label
    /\ fed' = IF Truthy(label) THEN Append(fed, label) ELSE fed
    /\ UNCHANGED <<window, detectorVars, mainVars, normVars>>

SmootherInitAll ==
    /\ \E w \in 0..MaxWindow :
        /\ args = [DefaultArgs EXCEPT !.window = w]
        /\ SmootherInit(w)
    /\ DetectorInit(FALSE, [kind |-> "missing", items |-> <<>>])
    /\ MainIdle

SmootherNext == \E label \in FeedLabels \cup FalsyLabels : Update(label)

SmootherSpec == SmootherInitAll /\ [][SmootherNext]_vars

(***************************************************************************)
(* A detector on its own: analyze is called on any image; the matcher is   *)
(* also called directly.                                                   *)
(***************************************************************************)
Analyze(rep, cls) ==
    /\ calls < MaxCalls
    /\ LET r == analyze(use_calibration, calibration_data, counter, rep, cls)
       IN  /\ counter' = r.counter
           /\ last' = [call |-> "analyze", attempted |-> r.attempted,
                       matched |-> r.matched, classified |-> r.classified,
                       rep |-> r.rep, cls |-> r.cls, out |-> r.out]
    /\ calls' = calls + 1
    /\ UNCHANGED <<use_calibration, calibration_data, smootherVars, mainVars, normVars>>

MatchCall(rep) ==
    /\ last' = [call |-> "match", attempted |-> TRUE,
                matched |-> match_with_calibration(calibration_data, rep),
                classified |-> FALSE, rep |-> rep, cls |-> ClsNotCalled,
                out |-> NoResult]
    /\ UNCHANGED <<use_calibration, calibration_data, counter, calls, smootherVars, mainVars, normVars>>

DetectorInitAll ==
    /\ args = DefaultArgs
    /\ SmootherInit(DefaultWindow)
    /\ \E use \in BOOLEAN, file \in Files : DetectorInit(use, file)
    /\ MainIdle

\* DeepFace.represent is reached only on a sampled call with calibration on
RepsReached ==
    IF CalibrationOn(use_calibration, calibration_data) /\ Sampled(counter + 1)
    THEN RepOutcomes
    ELSE {RepNotCalled}

DetectorNext ==
    \/ \E rep \in RepsReached, cls \in ClsOutcomes : Analyze(rep, cls)
    \/ \E rep \in RepOutcomes : MatchCall(rep)

DetectorSpec == DetectorInitAll /\ [][DetectorNext]_vars

(***************************************************************************)
(* playlist.py and player.py: the tables keep each URL or query as one     *)
(* opaque string.                                                          *)
(***************************************************************************)
EMOTION_TO_QUERY_YOUTUBE == <<
    <<S_happy, "happy mood Bollywood songs">>,
    <<S_sad, "sad emotional songs">>,
    <<S_angry, "rock songs playlist">>,
    <<S_neutral, "lofi chill songs">>,
    <<S_surprise, "party songs playlist">> >>

EMOTION_TO_SPOTIFY == <<
    <<S_happy, "https://open.spotify.com/playlist/37i9dQZF1DXdPec7aLTmlC">>,
    <<S_sad, "https://open.spotify.com/playlist/37i9dQZF1DX3YSRoSdA634">>,
    <<S_angry, "https://open.spotify.com/playlist/37i9dQZF1DX1tyCD9QhIWF">>,
    <<S_neutral, "https://open.spotify.com/playlist/37i9dQZF1DX8Uebhn9wzrS">>,
    <<S_surprise, "https://open.spotify.com/playlist/37i9dQZF1DX0XUsuxWHRQd">> >>

FALLBACKS == <<
    <<S_fear, "https://open.spotify.com/playlist/37i9dQZF1DWXLeA8Omikj7">>,
    <<S_disgust, "https://open.spotify.com/playlist/37i9dQZF1DX1tyCD9QhIWF">> >>

\* table.get(lbl) or _FALLBACKS.get(lbl) or table['neutral']
TableLookup(table, label) ==
    LET lbl == normalize_emotion_label(label)
    IN  IF DictHas(table, lbl) THEN DictGet(table, lbl, "")
        ELSE IF DictHas(FALLBACKS, lbl) THEN DictGet(FALLBACKS, lbl, "")
        ELSE DictGet(table, S_neutral, "")

emotion_to_query(label) == TableLookup(EMOTION_TO_QUERY_YOUTUBE, label)
emotion_to_spotify(label) == TableLookup(EMOTION_TO_SPOTIFY, label)

\* open_spotify(emotion_to_spotify(e)) or open_youtube(emotion_to_query(e))
PlayTarget(platform, label) ==
    IF platform = "spotify" THEN emotion_to_spotify(label) ELSE emotion_to_query(label)

(***************************************************************************)
(* main (src/app.py): one action per iteration of the while loop, by the   *)
(* key that cv2.waitKey returned.  The clock advances between reads.       *)
(***************************************************************************)
Cooldown == 45                          \* --cooldown default, seconds
TickSeconds == 15                       \* the clock is observed every 15 s

ManualKeys == <<
    <<"h", S_happy>>, <<"s", S_sad>>, <<"a", S_angry>>,
    <<"n", S_neutral>>, <<"p", S_surprise>> >>

MainInit ==
    /\ \E sh \in BOOLEAN, fear \in BOOLEAN, pf \in {"spotify", "youtube"} :
        args = [window |-> DefaultWindow, show |-> sh, ignore_fear |-> fear, platform |-> pf]
    /\ SmootherInit(DefaultWindow)
    /\ DetectorInit(FALSE, [kind |-> "missing", items |-> <<>>])
    /\ pc = "loop"
    /\ frame_idx = 0
    /\ now = 0
    /\ last_played_label = None
    /\ last_play_time = 0
    /\ opened = NoOpen
    /\ n_opened = 0
    /\ NormInit

Iterating == pc = "loop" /\ frame_idx < MaxFrames

Tick ==
    /\ pc = "loop"
    /\ now + TickSeconds <= MaxTime
    /\ now' = now + TickSeconds
    /\ UNCHANGED <<normVars, smootherVars, detectorVars, args, pc, frame_idx,
                   last_played_label, last_play_time, opened, n_opened>>

\* cam.read() fails: break
ReadFail ==
    /\ Iterating
    /\ pc' = "done"
    /\ UNCHANGED <<normVars, smootherVars, detectorVars, args, frame_idx, now,
                   last_played_label, last_play_time, opened, n_opened>>

\* key == ord('q'): break
Quit ==
    /\ Iterating
    /\ args.show
    /\ pc' = "done"
    /\ UNCHANGED <<normVars, smootherVars, detectorVars, args, frame_idx, now,
                   last_played_label, last_play_time, opened, n_opened>>

\* no preview window, or no key, or a key without a branch
NoKey ==
    /\ Iterating
    /\ frame_idx' = frame_idx + 1
    /\ UNCHANGED <<normVars, smootherVars, detectorVars, args, pc, now,
                   last_played_label, last_play_time, opened, n_opened>>

Play(by, label) ==
    /\ opened' = [by |-> by, platform |-> args.platform, label |-> label,
                  target |-> PlayTarget(args.platform, label)]
    /\ n_opened' = n_opened + 1
    /\ last_played_label' = label
    /\ last_play_time' = now

\* the emotion main acts on: normalised, with fear folded under --ignore-fear
SnapshotEmotion(out) ==
    LET emotion == normalize_emotion_label(out.dominant_emotion)
    IN  IF args.ignore_fear /\ emotion = S_fear THEN S_neutral ELSE emotion

\* key == ord(' '): capture, analyze, play
Space(cls) ==
    /\ Iterating
    /\ args.show
    /\ LET r == analyze(use_calibration, calibration_data, counter, RepNotCalled, cls)
       IN  /\ counter' = r.counter
           /\ calls' = calls + 1
           /\ last' = [call |-> "analyze", attempted |-> r.attempted,
                       matched |-> r.matched, classified |-> r.classified,
                       rep |-> r.rep, cls |-> r.cls, out |-> r.out]
           /\ IF r.out.kind = "raise"
              THEN \* the exception leaves main through the finally block
                   /\ pc' = "crashed"
                   /\ UNCHANGED <<frame_idx, last_played_label, last_play_time, opened, n_opened>>
              ELSE IF r.out.kind = "none"
              THEN /\ frame_idx' = frame_idx + 1
                   /\ UNCHANGED <<pc, last_played_label, last_play_time, opened, n_opened>>
              ELSE IF r.out.emotions.kind # "dict"
              THEN \* result.emotions.items() raises
                   /\ pc' = "crashed"
                   /\ UNCHANGED <<frame_idx, last_played_label, last_play_time, opened, n_opened>>
              ELSE /\ Play("snapshot", SnapshotEmotion(r.out))
                   /\ frame_idx' = frame_idx + 1
                   /\ pc' = pc
    /\ UNCHANGED <<smootherVars, use_calibration, calibration_data, args, now, normVars>>

\* key in 'h', 's', 'a', 'n', 'p'
Manual(i) ==
    /\ Iterating
    /\ args.show
    /\ Play("manual", ManualKeys[i][2])
    /\ frame_idx' = frame_idx + 1
    /\ UNCHANGED <<normVars, smootherVars, detectorVars, args, pc, now>>

Next ==
    \/ Tick
    \/ ReadFail
    \/ Quit
    \/ NoKey
    \/ \E cls \in ClsOutcomes : Space(cls)
    \/ \E i \in 1..Len(ManualKeys) : Manual(i)

Spec == MainInit /\ [][Next]_vars

(***************************************************************************)
(* Properties of main (checked under Spec).                                *)
(***************************************************************************)
SnapshotFires == opened'.by = "snapshot" /\ n_opened' = n_opened + 1

\* C1: the play-music action fires for a label only if the label is non-empty,
\* the confidence reaches the threshold, and no label was triggered yet, or
\* the cooldown has elapsed since the last firing, or the label differs from
\* the last triggered one.  Stated here for two successive snapshot firings
\* and whatever the confidence is: the second one has a non-empty label and
\* is either of another label or at least Cooldown seconds later.
C1_TriggerPolicy ==
    [][(opened.by = "snapshot" /\ SnapshotFires)
        => /\ Truthy(opened'.label)
           /\ \/ now - last_play_time >= Cooldown
              \/ opened'.label # last_played_label]_vars

\* C2: a snapshot whose analysis yields a result has its label passed to
\* LabelSmoother.update before any action is taken, and the label acted on
\* is the label the smoother returned.
C2_ActsOnSmoothedLabel ==
    [][SnapshotFires
        => /\ Len(fed') = Len(fed) + 1
           /\ buf' # <<>>
           /\ ret'.label = opened'.label]_vars

\* C10: whatever the classifier does (raises, returns an empty list or value,
\* a record without a dominant emotion, a non-mapping value, non-numeric
\* scores), analyze returns no result and raises nothing, and main goes on
\* with the next frame.
C10_NoResultNeverRaises ==
    /\ pc # "crashed"
    /\ (last.call = "analyze" /\ last.cls \in ClsAbsent \cup ClsMalformed)
        => last.out.kind = "none"

(***************************************************************************)
(* Properties of LabelSmoother (checked under SmootherSpec).               *)
(***************************************************************************)
Min2(a, b) == IF a <= b THEN a ELSE b
LastOf(s, m) == SubSeq(s, Len(s) - m + 1, Len(s))
TopCount(s) ==
    IF s = <<>> THEN 0
    ELSE CHOOSE c \in 1..Len(s) :
            /\ \E i \in 1..Len(s) : Count(s, s[i]) = c
            /\ \A i \in 1..Len(s) : Count(s, s[i]) <= c

\* C3: after n >= 1 non-empty labels, the returned confidence is (occurrences
\* of the most frequent label among the last min(W, n) labels) / min(W, n),
\* and the returned label attains that count.
C3_ConfidenceIsTopShare ==
    fed # <<>> =>
        LET m == Min2(window, Len(fed))
            s == LastOf(fed, m)
        IN  /\ m >= 1
            /\ ret.conf.num * m = TopCount(s) * ret.conf.den
            /\ Truthy(ret.label)
            /\ Count(s, ret.label) = TopCount(s)

\* an eviction has happened and the window holds a tie of two labels
C3_Witness ==
    /\ window = 2
    /\ Len(fed) = 4
    /\ fed[3] # fed[4]
    /\ ret.conf = [num |-> 1, den |-> 2]

\* C4: the history holds at most W = max(1, window) labels and is exactly the
\* last min(W, n) non-empty labels fed, in arrival order.
C4_HistoryIsLastW ==
    LET W == IF args.window >= 1 THEN args.window ELSE 1
        m == Min2(W, Len(fed))
    IN  /\ Len(buf) <= W
        /\ buf = LastOf(fed, m)

\* the window is full, labels were evicted, and the last call fed nothing
C4_Witness ==
    /\ args.window = 2
    /\ Len(fed) = 4
    /\ Len(buf) = 2
    /\ buf[1] # fed[1]
    /\ arg = EmptyStr

\* C5: update with an empty or absent label leaves the history unchanged and
\* returns what the previous call returned if the history is non-empty, and
\* (nothing, 0.0) if it is empty.
C5_EmptyLabelIsNoOp ==
    [][(\E l \in FalsyLabels : Update(l))
        => /\ buf' = buf
           /\ buf # <<>> => ret' = ret
           /\ buf = <<>> => ret' = [label |-> None, conf |-> [num |-> 0, den |-> 1]]]_vars

\* an absent label arrived when the history held two different labels
C5_Witness ==
    /\ arg = None
    /\ Len(buf) = 2
    /\ buf[1] # buf[2]
    /\ ret.label = buf[1]

TiedTop(s) == {s[i] : i \in {j \in 1..Len(s) : Count(s, s[j]) = TopCount(s)}}
FirstIndex(s, x) == CHOOSE i \in 1..Len(s) : s[i] = x /\ \A j \in 1..(i - 1) : s[j] # x

\* C12: among the labels that are equally the most frequent in the history,
\* update returns the one whose earliest occurrence in the current history
\* comes first; the returned label is thus a function of the ordered history.
C12_TieGoesToEarliestOccurrence ==
    buf # <<>> =>
        /\ ret.label \in TiedTop(buf)
        /\ \A y \in TiedTop(buf) : FirstIndex(buf, ret.label) <= FirstIndex(buf, y)

\* two labels tie behind an older single label: the tie goes to the one seen
\* first, which is neither the oldest entry nor the newest
C12_Witness ==
    /\ Len(buf) = 5
    /\ Cardinality(TiedTop(buf)) = 2
    /\ buf[1] \notin TiedTop(buf)
    /\ ret.label = buf[2]
    /\ ret.label # buf[5]
    /\ ret.conf = [num |-> 2, den |-> 5]

\* the last call of update passed a non-empty label
LabelWasFed == arg # NoCall /\ Truthy(arg)

\* C6 as stated: the entry appended for a non-empty label is its normalised form.
C6_AppendsNormalized ==
    LabelWasFed => buf # <<>> /\ buf[Len(buf)] = normalize_emotion_label(arg)

\* C6, amended: the entry appended for a non-empty label is the label exactly
\* as passed, so labels vote together only when they are the same string.
C6_AppendsAsGiven ==
    LabelWasFed =>
        /\ buf # <<>>
        /\ buf[Len(buf)] = arg
        /\ Count(buf, arg) = Count(LastOf(fed, Min2(window, Len(fed))), arg)

\* "anger" and "angry" sit in the history as two different votes
C6_Witness ==
    /\ arg = S_anger
    /\ Len(buf) = 2
    /\ buf[1] = S_angry
    /\ buf[2] = S_anger
    /\ ret = [label |-> S_angry, conf |-> [num |-> 1, den |-> 2]]

(***************************************************************************)
(* Properties of EmotionDetector (checked under DetectorSpec).             *)
(***************************************************************************)
ProfileLoaded == calibration_data.present /\ calibration_data.items # <<>>

\* C7: with calibration enabled and a non-empty profile, the match is
\* attempted exactly on calls K, 2K, ..., every other call goes to the
\* classifier without a match attempt, and the counter counts the calls;
\* otherwise no call attempts a match and the counter stays unchanged.
C7_SamplingCadence ==
    /\ counter = IF use_calibration /\ ProfileLoaded THEN calls ELSE 0
    /\ last.call = "analyze" =>
        /\ last.attempted <=> (use_calibration /\ ProfileLoaded /\ calls % 5 = 0)
        /\ ~last.attempted => (last.classified /\ last.rep = RepNotCalled)

\* the tenth call on a calibrated detector attempted the match
C7_Witness ==
    /\ use_calibration /\ ProfileLoaded
    /\ calls = 10
    /\ last.call = "analyze"
    /\ last.attempted
    /\ last.rep.kind = "embedding"

SimOf(i) == Similarity(last.rep.vec, calibration_data.items[i].vec)
Comparable(i) ==
    /\ calibration_data.items[i].has_mean
    /\ Len(calibration_data.items[i].vec) = Len(last.rep.vec)
    /\ SimOf(i).q # 0
IsMaxAt(i) ==
    /\ Comparable(i)
    /\ \A j \in 1..Len(calibration_data.items) : Comparable(j) => ~SimGt(SimOf(j), SimOf(i))
HasMax == \E i \in 1..Len(calibration_data.items) : IsMaxAt(i)
FirstMax ==
    CHOOSE i \in 1..Len(calibration_data.items) :
        IsMaxAt(i) /\ \A j \in 1..(i - 1) : ~IsMaxAt(j)
AboveThreeQuarters(s) == s.d > 0 /\ 16 * s.d * s.d > 9 * s.q

\* C8: the matcher returns a label only if it is the first label of maximal
\* similarity and that maximum is strictly above 0.75; it returns that label
\* whenever the profile is well formed and the maximum is above 0.75; an
\* empty profile gives no match.
C8_MatcherReturnsFirstMaxAboveThreshold ==
    last.attempted =>
        /\ ~ProfileLoaded => last.matched = None
        /\ last.matched # None =>
            /\ last.rep.kind = "embedding"
            /\ HasMax
            /\ last.matched = calibration_data.items[FirstMax].label
            /\ AboveThreeQuarters(SimOf(FirstMax))
        /\ ( /\ ProfileLoaded
             /\ last.rep.kind = "embedding"
             /\ \A i \in 1..Len(calibration_data.items) :
                    /\ calibration_data.items[i].has_mean
                    /\ Len(calibration_data.items[i].vec) = Len(last.rep.vec)
             /\ HasMax
             /\ AboveThreeQuarters(SimOf(FirstMax)) )
            => last.matched = calibration_data.items[FirstMax].label

\* two labels tie at similarity 1 and the first of the profile is returned
C8_Witness ==
    /\ last.attempted
    /\ calibration_data.items = <<Entry(S_sad, V_2e), Entry(S_happy, V_e)>>
    /\ last.rep = [kind |-> "embedding", vec |-> V_e]
    /\ last.matched = S_sad

\* C9: analyze returns the override result (dominant label = matched label,
\* scores = {matched label: 100.0}, confidence 1.0) exactly when calibration
\* is enabled, a profile is loaded, the call is sampled and the matcher
\* returns a label; in every other case the call invokes the classifier and
\* its outcome comes from the classifier's output.
C9_OverrideExactlyOnMatch ==
    last.call = "analyze" =>
        LET override == /\ use_calibration /\ ProfileLoaded
                        /\ calls % 5 = 0
                        /\ last.attempted /\ Truthy(last.matched)
        IN  /\ override =>
                /\ ~last.classified
                /\ last.out = [kind |-> "result",
                               dominant_emotion |-> last.matched,
                               emotions |-> [kind |-> "dict", items |-> <<<<last.matched, 100>>>>],
                               score |-> [num |-> 1, den |-> 1]]
            /\ ~override =>
                /\ last.classified
                /\ last.cls \in ClsOutcomes
                /\ last.out.kind = "result" =>
                    /\ last.cls.kind = "record" /\ last.cls.has_dom
                    /\ last.out.dominant_emotion = Lower(last.cls.dom)
                    /\ last.out.emotions = last.cls.emotions
                /\ last.cls \in ClsAbsent => last.out.kind = "none"

\* the fifth call matched "sad" and returned the override
C9_Witness ==
    /\ calls = 5
    /\ last.call = "analyze"
    /\ ~last.classified
    /\ last.out.dominant_emotion = S_sad
    /\ last.out.score = [num |-> 1, den |-> 1]

(***************************************************************************)
(* normalize_emotion_label on its own: it is called on any raw label, and  *)
(* then again on what it returned.                                         *)
(***************************************************************************)
UpperChar(c) ==
    IF \E i \in 1..Len(LowerAlpha) : LowerAlpha[i] = c
    THEN UpperAlpha[CHOOSE i \in 1..Len(LowerAlpha) : LowerAlpha[i] = c]
    ELSE c
Upper(s) == [i \in 1..Len(s) |-> UpperChar(s[i])]
Capitalize(s) == IF s = <<>> THEN s ELSE <<UpperChar(s[1])>> \o Tail(s)

\* every key and value of the synonym table, the other labels, the empty
\* string; each in lower, capitalised and upper case, bare or padded
Words ==
    {S_anger, S_happiness, S_sadness, S_surprised,
     S_angry, S_happy, S_sad, S_surprise,
     S_neutral, S_fear, S_disgust, S_calm, EmptyStr}
Pads == {<<>>, <<" ">>, <<"\t", "\n">>}
RawLabels ==
    {None} \cup
    {l \o c \o r : l \in Pads, r \in Pads,
                   c \in UNION {{w, Capitalize(w), Upper(w)} : w \in Words}}

Normalize(x) ==
    /\ label_raw' = x
    /\ label_prev' = NoCall
    /\ label_out' = normalize_emotion_label(x)
    /\ applications' = 1
    /\ UNCHANGED <<smootherVars, detectorVars, mainVars>>

Renormalize ==
    /\ applications >= 1
    /\ applications < MaxApplications
    /\ label_prev' = label_out
    /\ label_out' = normalize_emotion_label(label_out)
    /\ applications' = applications + 1
    /\ UNCHANGED <<label_raw, smootherVars, detectorVars, mainVars>>

NormalizeInitAll ==
    /\ args = DefaultArgs
    /\ SmootherInit(DefaultWindow)
    /\ DetectorInit(FALSE, [kind |-> "missing", items |-> <<>>])
    /\ MainIdle

NormalizeNext ==
    \/ \E x \in RawLabels : Normalize(x)
    \/ Renormalize

NormalizeSpec == NormalizeInitAll /\ [][NormalizeNext]_vars

\* C11: normalize_emotion_label is idempotent: applied to its own result, it
\* returns that result (for the empty string, absent input, mixed case,
\* surrounding whitespace, every key and value of the synonym table).
C11_NormalizeIdempotent ==
    applications >= 2 => label_out = label_prev

\* a padded upper-case synonym key was folded, and folding again kept it
C11_Witness ==
    /\ label_raw = <<" ">> \o Upper(S_anger) \o <<"\t", "\n">>
    /\ applications = 2
    /\ label_prev = S_angry
    /\ label_out = S_angry

====
